---------------------------- MODULE Spec2Model ----------------------------
(***************************************************************************)
(* VS Code Recorder: the CSV edit-log codec, the append queue writer, the  *)
(* session lifecycle and the replay that reconstructs Changes from a row   *)
(* log.  Strings are sequences of one-character strings; the control       *)
(* characters tab, CR and LF are the atoms TABC, CR and LF below.          *)
(***************************************************************************)
EXTENDS Integers, Sequences, FiniteSets, TLC

\* ------------------------------------------------------------ characters
QUOTE == "\""
COMMA == ","
BSLASH == "\\"
TABC == "<TAB>"
CR == "<CR>"
LF == "<LF>"
Digits == <<"0", "1", "2", "3", "4", "5", "6", "7", "8", "9">>
\* Number.parseInt's "not a number" (every parsed field is a natural number).
NaN == -1

\* ------------------------------------------------------- string helpers
IsPrefixAt(s, i, pat) ==
    /\ i + Len(pat) - 1 <= Len(s)
    /\ \A k \in 1..Len(pat) : s[i + k - 1] = pat[k]

\* String.prototype.replace with a global literal pattern: a left-to-right
\* scan replacing each non-overlapping match.
RECURSIVE ReplaceFrom(_, _, _, _)
ReplaceFrom(s, i, pat, rep) ==
    IF i > Len(s) THEN <<>>
    ELSE IF IsPrefixAt(s, i, pat)
         THEN rep \o ReplaceFrom(s, i + Len(pat), pat, rep)
         ELSE <<s[i]>> \o ReplaceFrom(s, i + 1, pat, rep)

ReplaceAll(s, pat, rep) == ReplaceFrom(s, 1, pat, rep)

\* The number of occurrences of c in s from position i on.
CountOf(s, i, c) == Cardinality({k \in i..Len(s) : s[k] = c})

\* The elements of a finite set of numbers in ascending order.
RECURSIVE SortedSeq(_)
SortedSeq(S) ==
    IF S = {} THEN <<>>
    ELSE LET m == CHOOSE x \in S : \A y \in S : x <= y
         IN  <<m>> \o SortedSeq(S \ {m})

\* The pieces of s between the positions cuts (ascending), which are left out.
PiecesOf(s, cuts) ==
    [k \in 1..(Len(cuts) + 1) |->
        SubSeq(s, IF k = 1 THEN 1 ELSE cuts[k - 1] + 1,
                  IF k <= Len(cuts) THEN cuts[k] - 1 ELSE Len(s))]

\* Template-literal formatting of a natural number: its decimal digits.
RECURSIVE NumToStr(_)
NumToStr(n) ==
    IF n < 10 THEN <<Digits[n + 1]>>
    ELSE NumToStr(n \div 10) \o <<Digits[(n % 10) + 1]>>

IsDigit(c) == \E d \in 1..10 : Digits[d] = c
DigitVal(c) == (CHOOSE d \in 1..10 : Digits[d] = c) - 1

RECURSIVE ParseDigits(_, _, _)
ParseDigits(s, i, acc) ==
    IF i > Len(s) \/ ~IsDigit(s[i]) THEN acc
    ELSE ParseDigits(s, i + 1, acc * 10 + DigitVal(s[i]))

\* Number.parseInt on an unsigned field: the leading decimal digits, NaN
\* when the field does not start with a digit.
ParseInt(s) ==
    IF Len(s) = 0 \/ ~IsDigit(s[1]) THEN NaN ELSE ParseDigits(s, 1, 0)

\* ----------------------------------------------------------- utilities
escapeString(editorText) ==
    LET s1 == ReplaceAll(editorText, <<QUOTE>>, <<QUOTE, QUOTE>>)
        s2 == ReplaceAll(s1, <<CR, LF>>, <<BSLASH, "r", BSLASH, "n">>)
        s3 == ReplaceAll(s2, <<LF>>, <<BSLASH, "n">>)
        s4 == ReplaceAll(s3, <<CR>>, <<BSLASH, "r">>)
    IN  ReplaceAll(s4, <<TABC>>, <<BSLASH, "t">>)

\* text.replace(/^"(.*)"$/, '$1'): "." matches no line terminator.
removeDoubleQuotes(text) ==
    IF /\ Len(text) >= 2
       /\ text[1] = QUOTE
       /\ text[Len(text)] = QUOTE
       /\ \A k \in 2..(Len(text) - 1) : text[k] \notin {CR, LF}
    THEN SubSeq(text, 2, Len(text) - 1)
    ELSE text

unescapeString(text) ==
    LET s1 == ReplaceAll(text, <<QUOTE, QUOTE>>, <<QUOTE>>)
        s2 == ReplaceAll(s1, <<BSLASH, "r", BSLASH, "n">>, <<CR, LF>>)
        s3 == ReplaceAll(s2, <<BSLASH, "n">>, <<LF>>)
        s4 == ReplaceAll(s3, <<BSLASH, "r">>, <<CR>>)
    IN  ReplaceAll(s4, <<BSLASH, "t">>, <<TABC>>)

\* ------------------------------------------------------------ CSV rows
\* ChangeType of types.ts and the 'heading' sentinel of buildCsvRow.
ChangeTypeCONTENT == "content"
ChangeTypeTAB == "tab"
ChangeTypeHEADING == "heading"

\* A falsy result: undefined, or the empty string.
Undefined == <<>>

HeadingLine ==
    <<"Sequence", COMMA, "Time", COMMA, "File", COMMA, "RangeOffset", COMMA,
      "RangeLength", COMMA, "Text", COMMA, "Language", COMMA, "Type", LF>>

\* The template literal of buildCsvRow: file and text quoted, text escaped.
FormatRow(sequence, time, file, rangeOffset, rangeLength, text, language, type) ==
    NumToStr(sequence) \o <<COMMA>> \o NumToStr(time) \o <<COMMA, QUOTE>>
        \o file \o <<QUOTE, COMMA>> \o NumToStr(rangeOffset) \o <<COMMA>>
        \o NumToStr(rangeLength) \o <<COMMA, QUOTE>> \o escapeString(text)
        \o <<QUOTE, COMMA>> \o language \o <<COMMA, type, LF>>

\* line.split(/,(?=(?:[^"]*"[^"]*")*[^"]*$)/): a comma separates two fields
\* when an even number of double quotes follows it up to the end of the line.
IsSeparator(line, i) == line[i] = COMMA /\ CountOf(line, i + 1, QUOTE) % 2 = 0

SplitCsvLine(line) ==
    PiecesOf(line, SortedSeq({i \in 1..Len(line) : IsSeparator(line, i)}))

\* readline with crlfDelay Infinity: the lines of a text, broken at LF, CR LF
\* and CR, without the line terminators; a trailing terminator opens no
\* further line.
IsLineEnd(s, i) == s[i] = LF \/ (s[i] = CR /\ (i = Len(s) \/ s[i + 1] # LF))

StripCR(piece) ==
    IF piece # <<>> /\ piece[Len(piece)] = CR THEN SubSeq(piece, 1, Len(piece) - 1)
    ELSE piece

ReadLines(s) ==
    LET cuts == SortedSeq({i \in 1..Len(s) : IsLineEnd(s, i)})
        pieces == PiecesOf(s, cuts)
        n == IF pieces[Len(pieces)] = <<>> THEN Len(pieces) - 1 ELSE Len(pieces)
    IN  [k \in 1..n |-> IF k <= Len(cuts) THEN StripCR(pieces[k]) ELSE pieces[k]]

\* --------------------------------------------------------------- replay
Min(a, b) == IF a < b THEN a ELSE b

\* Array.prototype.splice's reading of its start and deleteCount arguments:
\* NaN counts as 0 and both are clamped to the array.
SpliceStart(previousText, rangeOffset) ==
    IF rangeOffset = NaN THEN 0 ELSE Min(rangeOffset, Len(previousText))

SpliceCount(previousText, rangeOffset, rangeLength) ==
    IF rangeLength = NaN THEN 0
    ELSE Min(rangeLength, Len(previousText) - SpliceStart(previousText, rangeOffset))

\* getUpdatedText that inserts the new text and removes nothing.
getUpdatedTextInsertOnly(previousText, rangeOffset, rangeLength, newText) ==
    LET start == SpliceStart(previousText, rangeOffset)
    IN  SubSeq(previousText, 1, start) \o newText
            \o SubSeq(previousText, start + 1, Len(previousText))

\* getUpdatedText that leaves the text alone when the range is not within it.
getUpdatedTextInRangeOnly(previousText, rangeOffset, rangeLength, newText) ==
    IF rangeOffset # NaN /\ rangeLength # NaN
           /\ rangeOffset + rangeLength > Len(previousText)
    THEN previousText
    ELSE LET start == SpliceStart(previousText, rangeOffset)
             count == SpliceCount(previousText, rangeOffset, rangeLength)
         IN  SubSeq(previousText, 1, start) \o newText
                 \o SubSeq(previousText, start + count + 1, Len(previousText))

getUpdatedText(previousText, rangeOffset, rangeLength, newText) ==
    LET start == SpliceStart(previousText, rangeOffset)
        count == SpliceCount(previousText, rangeOffset, rangeLength)
    IN  SubSeq(previousText, 1, start) \o newText
            \o SubSeq(previousText, start + count + 1, Len(previousText))

\* previousChange is <<>> (none) or <<change>>.
getNewTextContent(type, text, previousChange, rangeOffset, rangeLength) ==
    IF type = <<ChangeTypeTAB>> THEN text
    ELSE IF previousChange = <<>> THEN <<>>
    ELSE getUpdatedText(previousChange[1].text, rangeOffset, rangeLength, text)

\* lineArr[k] of a zero-based index k; undefined past the last field.
Field(lineArr, k) == IF k + 1 <= Len(lineArr) THEN lineArr[k + 1] ELSE Undefined

\* removeDoubleQuotes(undefined) throws: text.replace of undefined.
LineThrows(line) ==
    LET lineArr == SplitCsvLine(line)
    IN  ParseInt(lineArr[1]) # NaN /\ Len(lineArr) < 6

\* === on numbers: NaN equals nothing, itself included.
NumEq(a, b) == a # NaN /\ b # NaN /\ a = b

\* IsDuplicate without the comparison of the times.
IsDuplicateAtAnyTime(previousChange, time, file, newText, language) ==
    /\ previousChange # <<>>
    /\ file = previousChange[1].file
    /\ newText = previousChange[1].text
    /\ language = previousChange[1].language

IsDuplicate(previousChange, time, file, newText, language) ==
    /\ previousChange # <<>>
    /\ NumEq(time, previousChange[1].startTime)
    /\ file = previousChange[1].file
    /\ newText = previousChange[1].text
    /\ language = previousChange[1].language

\* The text processCSVLine reconstructs for a line (computed before the
\* duplicate test, whether or not a Change is returned).
LineNewText(line, previousChange) ==
    LET lineArr == SplitCsvLine(line)
    IN  getNewTextContent(Field(lineArr, 7),
                          unescapeString(removeDoubleQuotes(Field(lineArr, 5))),
                          previousChange,
                          ParseInt(Field(lineArr, 3)),
                          ParseInt(Field(lineArr, 4)))

\* processCSVLine that keeps the sequence number stored in the row.
processCSVLineStoredSequence(line, previousChange) ==
    LET lineArr == SplitCsvLine(line)
        time == ParseInt(Field(lineArr, 1))
        file == removeDoubleQuotes(Field(lineArr, 2))
        language == Field(lineArr, 6)
        newText == LineNewText(line, previousChange)
    IN  IF ParseInt(lineArr[1]) = NaN THEN <<>>
        ELSE IF IsDuplicate(previousChange, time, file, newText, language) THEN <<>>
        ELSE <<[sequence |-> ParseInt(lineArr[1]),
                file |-> file,
                startTime |-> time,
                endTime |-> 0,
                language |-> language,
                text |-> newText]>>

\* processCSVLine without the test of the first field.
processCSVLineNoSkip(line, previousChange) ==
    LET lineArr == SplitCsvLine(line)
        time == ParseInt(Field(lineArr, 1))
        file == removeDoubleQuotes(Field(lineArr, 2))
        language == Field(lineArr, 6)
        newText == LineNewText(line, previousChange)
    IN  IF IsDuplicate(previousChange, time, file, newText, language) THEN <<>>
        ELSE <<[sequence |-> IF previousChange # <<>>
                             THEN previousChange[1].sequence + 1 ELSE 1,
                file |-> file,
                startTime |-> time,
                endTime |-> 0,
                language |-> language,
                text |-> newText]>>

\* <<>> for null, <<change>> otherwise.
processCSVLine(line, previousChange) ==
    LET lineArr == SplitCsvLine(line)
        time == ParseInt(Field(lineArr, 1))
        file == removeDoubleQuotes(Field(lineArr, 2))
        language == Field(lineArr, 6)
        newText == LineNewText(line, previousChange)
    IN  IF ParseInt(lineArr[1]) = NaN THEN <<>>
        ELSE IF IsDuplicate(previousChange, time, file, newText, language) THEN <<>>
        ELSE <<[sequence |-> IF previousChange # <<>>
                             THEN previousChange[1].sequence + 1 ELSE 1,
                file |-> file,
                startTime |-> time,
                endTime |-> 0,
                language |-> language,
                text |-> newText]>>

\* ---------------------------------------------------------------- bounds
MaxTime == 1
MaxSessions == 2
MaxEvents == 3
MaxFailures == 1
MaxDrains == 2
MaxDocLen == 2
MaxLogLen == 3
MaxTextLen == 3

\* ----------------------------------------------------------- environment
NoDate == -1
NoEditor == "none"
NoPath == "nopath"
NoCodec == [pc |-> "none"]
Files == {"f1", "fx"}
ExportPaths == {"p1/"}
ExportFormatChoices == {{}, {"SRT"}, {"JSON"}, {"SRT", "JSON"}}
\* The texts an edit inserts: a letter, and a backslash followed by n.
EditTexts == {<<"a">>, <<BSLASH, "n">>}

\* What a run may hold at most: sessions started, editor and configuration
\* events, clock ticks, failed writes and drains in progress at once.  A run
\* is one session of MaxEvents events whose handlers find the writer idle,
\* or MaxSessions such sessions with two events less, or one session with
\* one event less, no tick, MaxFailures failed writes and MaxDrains drains.
Scenarios ==
    {[sessions |-> 1, events |-> MaxEvents, ticks |-> MaxTime, failures |-> 0,
      drains |-> MaxDrains - 1],
     [sessions |-> MaxSessions, events |-> MaxEvents - 2, ticks |-> MaxTime,
      failures |-> 0, drains |-> MaxDrains - 1],
     [sessions |-> 1, events |-> MaxEvents - 1, ticks |-> 0, failures |-> MaxFailures,
      drains |-> MaxDrains]}

VARIABLES
    budget,            \* the scenario of this run, one of Scenarios
    recording,         \* the Recording singleton: isRecording, startDateTime, endDateTime, sequence
    fileQueue,         \* the File[] queue of pending writes
    pending,           \* the appendFile calls in flight, one per drain that awaits
    disk,              \* the files written so far: path -> the contents appended
    replays,           \* the processCsvFile calls started, running or finished
    now,               \* the last reading of the clock, new Date()
    exportPath,        \* what getExportPath() resolves to, or NoPath
    exportFormats,     \* the export.exportFormats setting
    workspaceFolders,  \* whether vscode.workspace.workspaceFolders is set
    activeEditor,      \* vscode.window.activeTextEditor
    docs,              \* the text of each document
    enqueued,          \* history: every item ever pushed on fileQueue
    sessions,          \* history: the number of sessions started
    events,            \* history: the number of editor and configuration events
    failures,          \* history: the number of failed writes
    codec              \* a row being encoded and decoded on its own, or NoCodec

vars == <<budget, recording, fileQueue, pending, disk, replays, now, exportPath, exportFormats,
          workspaceFolders, activeEditor, docs, enqueued, sessions, events, failures,
          codec>>

\* The part of the state the synchronous code of a handler reads and writes.
\* clock: what new Date() returns while the handler runs.
HandlerState(clock) ==
    [rec |-> recording, q |-> fileQueue, pend |-> pending, enq |-> enqueued,
     clock |-> clock]

\* The clock readings a handler that runs now can get: time does not go back.
ClockReadings == now..budget.ticks

Commit(st) ==
    /\ recording' = st.rec
    /\ fileQueue' = st.q
    /\ pending' = st.pend
    /\ enqueued' = st.enq

\* ------------------------------------------------------------ utilities
\* utilities.generateFileName(date, isExport): a name derived from the
\* session's start time alone.
generateFileName(date, isExport) ==
    IF date = NoDate THEN Undefined ELSE <<"rec-">> \o NumToStr(date)

getEditorFileName(editor) == IF editor = NoEditor THEN <<>> ELSE <<editor>>

getEditorLanguage(editor) ==
    IF editor = NoEditor THEN <<>>
    ELSE IF editor = "f1" THEN <<"ts">> ELSE <<"md">>

\* Whether a document lies under an export path.
UnderPath(file, path) == file = "fx" /\ path = "p1/"

isCurrentFileExported(editor) ==
    IF editor = NoEditor \/ exportPath = NoPath THEN FALSE
    ELSE UnderPath(editor, exportPath)

\* path.join(exportPath, name)
JoinPath(path, name) == <<path>> \o name

\* ------------------------------------------------------------ recording
buildCsvRow(rec, clock, editor, sequence, rangeOffset, rangeLength, text, type) ==
    IF rec.startDateTime = NoDate THEN Undefined
    ELSE IF type = ChangeTypeHEADING THEN HeadingLine
    ELSE FormatRow(sequence, clock - rec.startDateTime, getEditorFileName(editor),
                   rangeOffset, rangeLength, text, getEditorLanguage(editor), type)

\* The content of a queued write: a string (a row or the heading line), a
\* subtitle block, or the JSON array of the Changes.
Str(chars) == [kind |-> "text", text |-> chars]

\* !content: undefined, or the empty string.
Falsy(content) == content.kind = "text" /\ content.text = Undefined

\* about: history only, what the item was enqueued for.
addToFileQueue(st, content, fileExtension, isExport, about) ==
    IF Falsy(content) THEN st
    ELSE IF st.rec.startDateTime = NoDate THEN st
    ELSE LET fileName == generateFileName(st.rec.startDateTime, isExport)
             name == fileName \o <<".", fileExtension>>
             id == Len(st.enq) + 1
         IN  IF fileName = Undefined THEN st
             ELSE [st EXCEPT
                     !.q = Append(@, [name |-> name, content |-> content, id |-> id]),
                     !.enq = Append(@, [name |-> name, content |-> content,
                                        about |-> about])]

\* stopRecording(true): the forced stop, which starts no replay.
stopRecordingForced(rec) ==
    IF ~rec.isRecording THEN rec ELSE [rec EXCEPT !.isRecording = FALSE]

\* The write a drain issues for the head of the queue, and awaits.
IssueWrite(path, q) ==
    [path |-> path, file |-> JoinPath(path, q[1].name), content |-> q[1].content,
     id |-> q[1].id]

\* appendToFile up to its first await: with no export path the session is
\* stopped; with an empty queue the call returns; otherwise the head's write
\* is issued and the drain awaits it.
\* The writes in flight are kept in the order of the queue items they carry:
\* which drain awaits which write makes no difference to what follows.
InsertWrite(pend, w) ==
    LET before == SelectSeq(pend, LAMBDA x : x.id <= w.id)
        after == SelectSeq(pend, LAMBDA x : x.id > w.id)
    IN  before \o <<w>> \o after

\* appendToFile without the test of the export path.
appendToFileAnyPath(st) ==
    IF st.q = <<>> THEN st
    ELSE [st EXCEPT !.pend = InsertWrite(@, IssueWrite(exportPath, st.q))]

appendToFile(st) ==
    IF exportPath = NoPath THEN [st EXCEPT !.rec = stopRecordingForced(@)]
    ELSE IF st.q = <<>> THEN st
    ELSE [st EXCEPT !.pend = InsertWrite(@, IssueWrite(exportPath, st.q))]

\* LogRow without recording.sequence++.
LogRowSameSequence(st, editor, rangeOffset, rangeLength, text, type, doc) ==
    LET row == buildCsvRow(st.rec, st.clock, editor, st.rec.sequence, rangeOffset,
                           rangeLength, text, type)
        st2 == addToFileQueue(st, Str(row), "csv", FALSE,
                              [session |-> sessions, type |-> type,
                               sequence |-> st.rec.sequence, doc |-> doc])
    IN  appendToFile(st2)

\* The handlers push a row and flush: addToFileQueue(buildCsvRow(...)) and
\* appendToFile(), not awaited.
LogRow(st, editor, rangeOffset, rangeLength, text, type, doc) ==
    LET st1 == [st EXCEPT !.rec.sequence = @ + 1]
        row == buildCsvRow(st1.rec, st.clock, editor, st1.rec.sequence, rangeOffset,
                           rangeLength, text, type)
        st2 == addToFileQueue(st1, Str(row), "csv", FALSE,
                              [session |-> sessions, type |-> type,
                               sequence |-> st1.rec.sequence, doc |-> doc])
    IN  appendToFile(st2)

\* startRecording of a session that passes the three guards.
startRecordingBody(st) ==
    LET rec == [isRecording |-> TRUE, startDateTime |-> st.clock, endDateTime |-> NoDate,
                sequence |-> 1]
        st1 == [st EXCEPT !.rec = rec]
        editorText == docs[activeEditor]
        fileName == generateFileName(rec.startDateTime, FALSE)
        heading == buildCsvRow(rec, st.clock, activeEditor, rec.sequence, 0, 0, editorText,
                               ChangeTypeHEADING)
        row == buildCsvRow(rec, st.clock, activeEditor, rec.sequence, 0, 0, editorText,
                           ChangeTypeTAB)
        st2 == addToFileQueue(st1, Str(heading), "csv", FALSE,
                              [session |-> sessions + 1, type |-> ChangeTypeHEADING,
                               sequence |-> 0, doc |-> <<>>])
        st3 == addToFileQueue(st2, Str(row), "csv", FALSE,
                              [session |-> sessions + 1, type |-> ChangeTypeTAB,
                               sequence |-> rec.sequence, doc |-> editorText])
    IN  IF fileName = Undefined
        THEN [st1 EXCEPT !.rec = stopRecordingForced(@)]
        ELSE appendToFile(st3)

\* StartRejected without the test of recording.isRecording.
StartRejectedUnlessActive == activeEditor = NoEditor \/ exportPath = NoPath

StartRejected == activeEditor = NoEditor \/ recording.isRecording \/ exportPath = NoPath

\* A further drain starts only while fewer than budget.drains writes are in
\* flight.
DrainsBounded == Len(pending) < budget.drains

startRecording(clock) ==
    /\ sessions < budget.sessions
    /\ DrainsBounded
    /\ now' = clock
    /\ IF StartRejected
       THEN UNCHANGED <<recording, fileQueue, pending, enqueued, sessions>>
       ELSE /\ Commit(startRecordingBody(HandlerState(clock)))
            /\ sessions' = sessions + 1
    /\ UNCHANGED <<budget, codec, disk, replays, exportPath, exportFormats, workspaceFolders,
                   activeEditor, docs, events, failures>>

\* ----------------------------------------------------- document changes
\* One content change of a TextDocumentChangeEvent.
ApplyChange(doc, change) ==
    SubSeq(doc, 1, change.rangeOffset) \o change.text
        \o SubSeq(doc, change.rangeOffset + change.rangeLength + 1, Len(doc))

\* The changes an editor can make to a document: an insertion of one of the
\* EditTexts at either end, or the deletion of its first character.
ChangesOf(doc) ==
    {[rangeOffset |-> o, rangeLength |-> 0, text |-> t] :
        o \in {0, Len(doc)}, t \in {u \in EditTexts : Len(doc) + Len(u) <= MaxDocLen}}
    \cup {[rangeOffset |-> 0, rangeLength |-> 1, text |-> <<>>] : x \in {1} \cap 1..Len(doc)}

\* The loop over event.contentChanges: each change is logged as one row.
RECURSIVE LogChanges(_, _, _)
LogChanges(st, doc, changes) ==
    IF changes = <<>> THEN st
    ELSE LET c == Head(changes)
             after == ApplyChange(doc, c)
         IN  LogChanges(LogRow(st, activeEditor, c.rangeOffset, c.rangeLength, c.text,
                               ChangeTypeCONTENT, after),
                        after, Tail(changes))

\* onDidChangeTextDocument for an event with one content change.
onChangeSubscription(file, change, clock) ==
    /\ events < budget.events
    /\ DrainsBounded
    /\ now' = clock
    /\ events' = events + 1
    /\ docs' = [docs EXCEPT ![file] = ApplyChange(@, change)]
    /\ IF \/ ~recording.isRecording
          \/ isCurrentFileExported(activeEditor)
          \/ activeEditor # file
       THEN UNCHANGED <<recording, fileQueue, pending, enqueued>>
       ELSE Commit(LogChanges(HandlerState(clock), docs[file], <<change>>))
    /\ UNCHANGED <<budget, codec, disk, replays, exportPath, exportFormats, workspaceFolders,
                   activeEditor, sessions, failures>>

\* extension.ts: onDidChangeActiveTextEditor.
onDidChangeActiveTextEditor(editor, clock) ==
    /\ events < budget.events
    /\ DrainsBounded
    /\ now' = clock
    /\ events' = events + 1
    /\ editor # activeEditor
    /\ activeEditor' = editor
    /\ IF editor # NoEditor /\ recording.isRecording /\ ~isCurrentFileExported(editor)
       THEN Commit(LogRow(HandlerState(clock), editor, 0, 0, docs[editor], ChangeTypeTAB,
                          docs[editor]))
       ELSE UNCHANGED <<recording, fileQueue, pending, enqueued>>
    /\ UNCHANGED <<budget, codec, disk, replays, exportPath, exportFormats, workspaceFolders,
                   docs, sessions, failures>>

\* --------------------------------------------------------------- writer
RemoveAt(seq, i) == SubSeq(seq, 1, i - 1) \o SubSeq(seq, i + 1, Len(seq))

\* fileQueue.shift(): removes the head, whatever it is; nothing when empty.
Shift(q) == IF q = <<>> THEN q ELSE Tail(q)

AppendToDisk(d, w) ==
    LET entry == [content |-> w.content, id |-> w.id]
    IN  IF w.file \in DOMAIN d
        THEN [d EXCEPT ![w.file] = Append(@, entry)]
        ELSE d @@ (w.file :> <<entry>>)

\* The drain that awaits pending[i] resumes: the loop of appendToFile tests
\* the queue again and issues the write of its head, or returns.
\* ResumeDrain without the loop: the drain returns after one write.
ResumeDrainOnce(pend, i, q) == RemoveAt(pend, i)

ResumeDrain(pend, i, q) ==
    IF q = <<>> THEN RemoveAt(pend, i)
    ELSE InsertWrite(RemoveAt(pend, i), IssueWrite(pend[i].path, q))

\* addToFile: the append of pending[i] succeeds, and the head is shifted.
addToFileDone(i) ==
    /\ i \in 1..Len(pending)
    /\ disk' = AppendToDisk(disk, pending[i])
    /\ fileQueue' = Shift(fileQueue)
    /\ pending' = ResumeDrain(pending, i, fileQueue')
    /\ UNCHANGED <<budget, codec, recording, replays, now, exportPath, exportFormats, workspaceFolders,
                   activeEditor, docs, enqueued, sessions, events, failures>>

\* addToFile that shifts the head after a failed append too.
addToFileFailedShifts(i) ==
    /\ i \in 1..Len(pending)
    /\ failures < budget.failures
    /\ failures' = failures + 1
    /\ fileQueue' = Shift(fileQueue)
    /\ pending' = ResumeDrain(pending, i, fileQueue')
    /\ UNCHANGED <<budget, codec, recording, disk, replays, now, exportPath, exportFormats,
                   workspaceFolders, activeEditor, docs, enqueued, sessions, events>>

\* addToFile: the append of pending[i] fails; the error is logged only.
addToFileFailed(i) ==
    /\ i \in 1..Len(pending)
    /\ failures < budget.failures
    /\ failures' = failures + 1
    /\ pending' = ResumeDrain(pending, i, fileQueue)
    /\ UNCHANGED <<budget, codec, recording, fileQueue, disk, replays, now, exportPath, exportFormats,
                   workspaceFolders, activeEditor, docs, enqueued, sessions, events>>

\* --------------------------------------------------------------- export
PadStart(chars, width, fill) ==
    [k \in 1..(width - Len(chars)) |-> fill] \o chars

\* formatSrtTime with the minutes not reduced to the hour.
formatSrtTimeAllMinutes(milliseconds) ==
    LET seconds == milliseconds \div 1000
        hours == seconds \div 3600
        minutes == seconds \div 60
        remainingSeconds == seconds % 60
        remainingMilliseconds == milliseconds % 1000
    IN  PadStart(NumToStr(hours), 2, "0") \o <<":">>
            \o PadStart(NumToStr(minutes), 2, "0") \o <<":">>
            \o PadStart(NumToStr(remainingSeconds), 2, "0") \o <<COMMA>>
            \o PadStart(NumToStr(remainingMilliseconds), 3, "0")

formatSrtTime(milliseconds) ==
    LET seconds == milliseconds \div 1000
        hours == seconds \div 3600
        minutes == (seconds % 3600) \div 60
        remainingSeconds == seconds % 60
        remainingMilliseconds == milliseconds % 1000
    IN  PadStart(NumToStr(hours), 2, "0") \o <<":">>
            \o PadStart(NumToStr(minutes), 2, "0") \o <<":">>
            \o PadStart(NumToStr(remainingSeconds), 2, "0") \o <<COMMA>>
            \o PadStart(NumToStr(remainingMilliseconds), 3, "0")

\* The subtitle block of a Change; its third line is JSON.stringify of the
\* Change's text, file and language.
addSrtLine(sequence, start, end, text) ==
    [kind |-> "srt", sequence |-> NumToStr(sequence), start |-> formatSrtTime(start),
     end |-> formatSrtTime(end), payload |-> text]

\* addToSRTFile(processedChanges, i, exportInSrt): the block of the Change
\* before index i.
addToSRTFile(st, processedChanges, i, exportInSrt, session) ==
    IF ~exportInSrt \/ i = 0 THEN st
    ELSE LET c == processedChanges[i]
         IN  addToFileQueue(st,
                 addSrtLine(c.sequence, c.startTime, c.endTime,
                            [text |-> c.text, file |-> c.file, language |-> c.language]),
                 "srt", TRUE,
                 [session |-> session, type |-> "srt", sequence |-> c.sequence,
                  doc |-> <<>>])

\* ----------------------------------------------------------------- stop
validateRecordingState(rec) ==
    /\ workspaceFolders
    /\ rec.endDateTime # NoDate
    /\ rec.startDateTime # NoDate

\* What processCsvFile logs before its first await: the severity given to
\* logToOutput, by validateRecordingState, by processCsvFile itself or by
\* getExportPath, or "none" when the replay starts.
processCsvFileReport(rec) ==
    IF ~validateRecordingState(rec) THEN "error"
    ELSE IF exportFormats = {} THEN "info"
    ELSE IF exportPath = NoPath THEN "error"
    ELSE "none"

\* processCsvFile up to the first line it awaits: whether a replay starts.
ReplayStarts(rec) ==
    /\ validateRecordingState(rec)
    /\ exportFormats # {}
    /\ exportPath # NoPath
    /\ generateFileName(rec.startDateTime, FALSE) # Undefined

NewReplay(rec) ==
    [pc |-> "reading",
     file |-> JoinPath(exportPath, generateFileName(rec.startDateTime, FALSE) \o <<".", "csv">>),
     exportFormats |-> exportFormats,
     processedChanges |-> <<>>,
     pos |-> 0,
     \* history
     session |-> sessions, start |-> rec.startDateTime, end |-> rec.endDateTime,
     ids |-> <<>>, texts |-> <<>>, steps |-> <<>>]

\* stopRecording that records no end time.
stopRecordingNoEndTime(clock) ==
    /\ now' = clock
    /\ IF ~recording.isRecording
       THEN UNCHANGED <<recording, replays>>
       ELSE LET rec == [recording EXCEPT !.isRecording = FALSE]
            IN  /\ recording' = rec
                /\ replays' = IF ReplayStarts(rec) THEN Append(replays, NewReplay(rec))
                              ELSE replays
    /\ UNCHANGED <<budget, codec, fileQueue, pending, disk, exportPath, exportFormats,
                   workspaceFolders, activeEditor, docs, enqueued, sessions, events,
                   failures>>

\* stopRecording(), the command: force = false.
stopRecording(clock) ==
    /\ now' = clock
    /\ IF ~recording.isRecording
       THEN UNCHANGED <<recording, replays>>
       ELSE LET rec == [recording EXCEPT !.isRecording = FALSE, !.endDateTime = clock]
            IN  /\ recording' = rec
                /\ replays' = IF ReplayStarts(rec) THEN Append(replays, NewReplay(rec))
                              ELSE replays
    /\ UNCHANGED <<budget, codec, fileQueue, pending, disk, exportPath, exportFormats,
                   workspaceFolders, activeEditor, docs, enqueued, sessions, events,
                   failures>>

\* --------------------------------------------------------------- replay
RECURSIVE TextOf(_)
TextOf(entries) ==
    IF entries = <<>> THEN <<>> ELSE Head(entries).content.text \o TextOf(Tail(entries))

\* The lines readline yields for a file as it is on disk now.
FileLines(file) == ReadLines(TextOf(disk[file]))

Last(seq) == IF seq = <<>> THEN <<>> ELSE <<seq[Len(seq)]>>

\* The body of the for-await loop of processCsvFile for one line.
ProcessLine(st, r, line, id) ==
    LET previousChange == Last(r.processedChanges)
        change == processCSVLine(line, previousChange)
        n == Len(r.processedChanges)
        closed == IF previousChange # <<>>
                  THEN [r.processedChanges EXCEPT ![n].endTime = change[1].startTime]
                  ELSE r.processedChanges
        st1 == IF previousChange # <<>> /\ "SRT" \in r.exportFormats
               THEN addToSRTFile(st, closed, n, TRUE, r.session)
               ELSE st
        stOut == IF change = <<>> THEN st ELSE st1
        changesOut == IF change = <<>> THEN r.processedChanges
                      ELSE Append(closed, change[1])
        valid == ParseInt(SplitCsvLine(line)[1]) # NaN
        \* history: what this iteration read, found and did
        step == [id |-> id, previous |-> previousChange, change |-> change,
                 before |-> r.processedChanges, after |-> changesOut,
                 blocks |-> Len(stOut.enq) - Len(st.enq)]
    IN  [st |-> stOut,
         r |-> [r EXCEPT !.pos = @ + 1,
                         !.processedChanges = changesOut,
                         !.ids = IF valid THEN Append(@, id) ELSE @,
                         !.texts = IF valid
                                   THEN Append(@, LineNewText(line, previousChange))
                                   ELSE @,
                         !.steps = IF valid THEN Append(@, step) ELSE @]]

\* What a replay reports when its stream fails: processCsvFile has no catch
\* around its for-await loop and stopRecording does not await it, so the
\* rejection is left unhandled and nothing is passed to logToOutput.
ReplayReport(r) == IF r.pc = "failed" THEN "unhandled" ELSE "none"

\* The replay reads its log: the file does not exist, and the stream fails.
ReplayOpenFailed(k) ==
    /\ k \in 1..Len(replays)
    /\ replays[k].pc = "reading"
    /\ replays[k].pos = 0
    /\ replays[k].file \notin DOMAIN disk
    /\ replays' = [replays EXCEPT ![k].pc = "failed"]
    /\ UNCHANGED <<budget, codec, recording, fileQueue, pending, disk, now, exportPath, exportFormats,
                   workspaceFolders, activeEditor, docs, enqueued, sessions, events,
                   failures>>

\* One iteration of the for-await loop.
ReplayLine(k) ==
    /\ k \in 1..Len(replays)
    /\ replays[k].pc = "reading"
    /\ replays[k].file \in DOMAIN disk
    /\ replays[k].pos < Len(FileLines(replays[k].file))
    /\ LET r == replays[k]
           line == FileLines(r.file)[r.pos + 1]
           id == disk[r.file][r.pos + 1].id
       IN  IF LineThrows(line)
           THEN /\ replays' = [replays EXCEPT ![k].pc = "failed"]
                /\ UNCHANGED <<recording, fileQueue, pending, enqueued>>
           ELSE LET out == ProcessLine(HandlerState(now), r, line, id)
                IN  /\ replays' = [replays EXCEPT ![k] = out.r]
                    /\ Commit(out.st)
    /\ UNCHANGED <<budget, codec, disk, now, exportPath, exportFormats, workspaceFolders, activeEditor,
                   docs, sessions, events, failures>>

\* finalizeRecording with the JSON serialized before the last Change is
\* closed.
finalizeRecordingJsonFirst(st, r) ==
    LET n == Len(r.processedChanges)
        closes == /\ n > 0
                  /\ st.rec.endDateTime # NoDate
                  /\ st.rec.startDateTime # NoDate
        closed == IF closes
                  THEN [r.processedChanges EXCEPT
                          ![n].endTime = st.rec.endDateTime - st.rec.startDateTime]
                  ELSE r.processedChanges
        st1 == IF closes /\ "SRT" \in r.exportFormats
               THEN addToSRTFile(st, closed, n, TRUE, r.session)
               ELSE st
        st2 == IF "JSON" \in r.exportFormats
               THEN addToFileQueue(st1, [kind |-> "json", changes |-> r.processedChanges],
                                   "json", TRUE,
                                   [session |-> r.session, type |-> "json",
                                    sequence |-> 0, doc |-> <<>>])
               ELSE st1
    IN  [st |-> appendToFile(st2),
         r |-> [r EXCEPT !.pc = "done", !.processedChanges = closed]]

finalizeRecording(st, r) ==
    LET n == Len(r.processedChanges)
        closes == /\ n > 0
                  /\ st.rec.endDateTime # NoDate
                  /\ st.rec.startDateTime # NoDate
        closed == IF closes
                  THEN [r.processedChanges EXCEPT
                          ![n].endTime = st.rec.endDateTime - st.rec.startDateTime]
                  ELSE r.processedChanges
        st1 == IF closes /\ "SRT" \in r.exportFormats
               THEN addToSRTFile(st, closed, n, TRUE, r.session)
               ELSE st
        st2 == IF "JSON" \in r.exportFormats
               THEN addToFileQueue(st1, [kind |-> "json", changes |-> closed], "json", TRUE,
                                   [session |-> r.session, type |-> "json",
                                    sequence |-> 0, doc |-> <<>>])
               ELSE st1
    IN  [st |-> appendToFile(st2),
         r |-> [r EXCEPT !.pc = "done", !.processedChanges = closed]]

\* The stream ends: every line on disk has been read.
ReplayEnd(k) ==
    /\ k \in 1..Len(replays)
    /\ DrainsBounded
    /\ replays[k].pc = "reading"
    /\ replays[k].file \in DOMAIN disk
    /\ replays[k].pos = Len(FileLines(replays[k].file))
    /\ LET out == finalizeRecording(HandlerState(now), replays[k])
       IN  /\ replays' = [replays EXCEPT ![k] = out.r]
           /\ Commit(out.st)
    /\ UNCHANGED <<budget, codec, disk, now, exportPath, exportFormats, workspaceFolders, activeEditor,
                   docs, sessions, events, failures>>

\* ---------------------------------------------------------- environment
\* The export.exportPath setting changes, or its directory comes or goes.
ExportPathChange(path) ==
    /\ events < budget.events
    /\ events' = events + 1
    /\ path # exportPath
    /\ exportPath' = path
    /\ UNCHANGED <<budget, codec, recording, fileQueue, pending, disk, replays, now, exportFormats,
                   workspaceFolders, activeEditor, docs, enqueued, sessions, failures>>

\* ------------------------------------------------------- specification
Init ==
    /\ budget \in Scenarios
    /\ recording = [isRecording |-> FALSE, startDateTime |-> NoDate,
                    endDateTime |-> NoDate, sequence |-> 0]
    /\ fileQueue = <<>>
    /\ pending = <<>>
    /\ disk = <<>>
    /\ replays = <<>>
    /\ now = 0
    /\ exportPath \in ExportPaths
    /\ exportFormats \in ExportFormatChoices
    /\ workspaceFolders \in BOOLEAN
    /\ activeEditor = "f1"
    /\ docs = [f \in Files |-> <<>>]
    /\ enqueued = <<>>
    /\ sessions = 0
    /\ events = 0
    /\ failures = 0
    /\ codec = NoCodec

Next ==
    \/ \E clock \in ClockReadings : startRecording(clock)
    \/ \E clock \in ClockReadings : stopRecording(clock)
    \/ \E file \in Files, clock \in ClockReadings : \E change \in ChangesOf(docs[file]) :
           onChangeSubscription(file, change, clock)
    \/ \E editor \in Files \cup {NoEditor}, clock \in ClockReadings :
           onDidChangeActiveTextEditor(editor, clock)
    \/ \E i \in 1..Len(pending) : addToFileDone(i)
    \/ \E i \in 1..Len(pending) : addToFileFailed(i)
    \/ \E k \in 1..Len(replays) : ReplayOpenFailed(k)
    \/ \E k \in 1..Len(replays) : ReplayLine(k)
    \/ \E k \in 1..Len(replays) : ReplayEnd(k)
    \/ \E path \in ExportPaths \cup {NoPath} : ExportPathChange(path)

Spec == Init /\ [][Next]_vars

\* ------------------------------------------------ replay of a given log
\* The lines a row log can hold: rows as buildCsvRow formats them (of either
\* type, in and out of range, with stored sequence numbers of any value), the
\* heading line, and lines that are no rows.
LogLines ==
    {FormatRow(1, 0, <<"f1">>, 0, 0, <<"a", "b">>, <<"ts">>, ChangeTypeTAB),
     FormatRow(7, 1, <<"f1">>, 1, 1, <<"b">>, <<"ts">>, ChangeTypeTAB),
     FormatRow(2, 0, <<"fx">>, 0, 0, <<"a", "b">>, <<"md">>, ChangeTypeTAB),
     FormatRow(2, 0, <<"f1">>, 2, 0, <<"c">>, <<"ts">>, ChangeTypeCONTENT),
     FormatRow(2, 1, <<"f1">>, 0, 1, <<"x">>, <<"ts">>, ChangeTypeCONTENT),
     FormatRow(3, 0, <<"f1">>, 0, 0, <<>>, <<"ts">>, ChangeTypeCONTENT),
     FormatRow(3, 1, <<"f1">>, 4, 2, <<"z">>, <<"ts">>, ChangeTypeCONTENT),
     FormatRow(3, 1, <<"f1">>, 1, 2, <<"y">>, <<"ts">>, ChangeTypeCONTENT),
     HeadingLine,
     <<"x", COMMA, "y", LF>>,
     <<"7", LF>>}

Logs == UNION {[1..n -> LogLines] : n \in 1..MaxLogLen}

\* The state right after stopRecording of a session that started at 0 and
\* ended at MaxTime, with its log fully written: the replay has been started.
InitReplay ==
    /\ budget = [sessions |-> 1, events |-> 0, ticks |-> MaxTime, failures |-> 0,
                 drains |-> MaxDrains]
    /\ recording = [isRecording |-> FALSE, startDateTime |-> 0,
                    endDateTime |-> MaxTime, sequence |-> 1]
    /\ fileQueue = <<>>
    /\ pending = <<>>
    /\ now = MaxTime
    /\ exportPath \in ExportPaths
    /\ exportFormats = {"SRT", "JSON"}
    /\ workspaceFolders = TRUE
    /\ activeEditor = "f1"
    /\ docs = [f \in Files |-> <<>>]
    /\ sessions = 1
    /\ events = 0
    /\ failures = 0
    /\ codec = NoCodec
    /\ replays = <<NewReplay(recording)>>
    /\ \E log \in Logs :
          /\ disk = (replays[1].file :>
                        [k \in 1..Len(log) |-> [content |-> Str(log[k]), id |-> k]])
          /\ enqueued = [k \in 1..Len(log) |->
                            [name |-> generateFileName(0, FALSE) \o <<".", "csv">>,
                             content |-> Str(log[k]),
                             about |-> [session |-> 1, type |-> "line",
                                        sequence |-> 0, doc |-> <<>>]]]

NextReplay ==
    \/ \E k \in 1..Len(replays) : ReplayLine(k)
    \/ \E k \in 1..Len(replays) : ReplayEnd(k)
    \/ \E i \in 1..Len(pending) : addToFileDone(i)

SpecReplay == InitReplay /\ [][NextReplay]_vars

\* ------------------------------------------------- the codec on its own
Alphabet == {QUOTE, COMMA, BSLASH, "n", "r", "t", TABC, CR, LF, "a"}

Texts == UNION {[1..n -> Alphabet] : n \in 0..MaxTextLen}

InitCodec ==
    /\ budget = [sessions |-> 0, events |-> 0, ticks |-> 0, failures |-> 0,
                 drains |-> MaxDrains]
    /\ recording = [isRecording |-> TRUE, startDateTime |-> 0,
                    endDateTime |-> NoDate, sequence |-> 1]
    /\ fileQueue = <<>>
    /\ pending = <<>>
    /\ disk = <<>>
    /\ replays = <<>>
    /\ now = 0
    /\ exportPath \in ExportPaths
    /\ exportFormats = {}
    /\ workspaceFolders = TRUE
    /\ activeEditor = "f1"
    /\ docs = [f \in Files |-> <<>>]
    /\ enqueued = <<>>
    /\ sessions = 0
    /\ events = 0
    /\ failures = 0
    /\ \E text \in Texts, type \in {ChangeTypeTAB, ChangeTypeCONTENT} :
          codec = [pc |-> "text", text |-> text, type |-> type]

\* buildCsvRow of a row that carries the text.
CodecBuild ==
    /\ codec.pc = "text"
    /\ codec' = [pc |-> "row", text |-> codec.text, type |-> codec.type,
                 row |-> buildCsvRow(recording, now, activeEditor, recording.sequence,
                                     0, 0, codec.text, codec.type)]
    /\ UNCHANGED <<budget, recording, fileQueue, pending, disk, replays, now, exportPath,
                   exportFormats, workspaceFolders, activeEditor, docs, enqueued, sessions,
                   events, failures>>

\* The split of processCSVLine, of the row without its line terminator.
CodecSplit ==
    /\ codec.pc = "row"
    /\ codec' = [pc |-> "fields", text |-> codec.text, type |-> codec.type,
                 row |-> codec.row,
                 lineArr |-> SplitCsvLine(SubSeq(codec.row, 1, Len(codec.row) - 1))]
    /\ UNCHANGED <<budget, recording, fileQueue, pending, disk, replays, now, exportPath,
                   exportFormats, workspaceFolders, activeEditor, docs, enqueued, sessions,
                   events, failures>>

\* unescapeString(removeDoubleQuotes(lineArr[5])).
CodecDecode ==
    /\ codec.pc = "fields"
    /\ codec' = [pc |-> "decoded", text |-> codec.text, type |-> codec.type,
                 row |-> codec.row, lineArr |-> codec.lineArr,
                 decoded |-> unescapeString(removeDoubleQuotes(Field(codec.lineArr, 5)))]
    /\ UNCHANGED <<budget, recording, fileQueue, pending, disk, replays, now, exportPath,
                   exportFormats, workspaceFolders, activeEditor, docs, enqueued, sessions,
                   events, failures>>

NextCodec == CodecBuild \/ CodecSplit \/ CodecDecode

SpecCodec == InitCodec /\ [][NextCodec]_vars


\* ------------------------------------------------- the writer, with progress
\* One session with one event and one failed append, two drains at a time.
LiveScenario ==
    [sessions |-> 1, events |-> MaxEvents - 2, ticks |-> 0, failures |-> MaxFailures,
     drains |-> MaxDrains]

InitLive ==
    /\ budget = LiveScenario
    /\ recording = [isRecording |-> FALSE, startDateTime |-> NoDate,
                    endDateTime |-> NoDate, sequence |-> 0]
    /\ fileQueue = <<>>
    /\ pending = <<>>
    /\ disk = <<>>
    /\ replays = <<>>
    /\ now = 0
    /\ exportPath \in ExportPaths
    /\ exportFormats \in ExportFormatChoices
    /\ workspaceFolders \in BOOLEAN
    /\ activeEditor = "f1"
    /\ docs = [f \in Files |-> <<>>]
    /\ enqueued = <<>>
    /\ sessions = 0
    /\ events = 0
    /\ failures = 0
    /\ codec = NoCodec

\* The guards of ReplayLine and of ReplayEnd.
ReplayLineEnabled ==
    \E k \in 1..Len(replays) :
        /\ replays[k].pc = "reading"
        /\ replays[k].file \in DOMAIN disk
        /\ replays[k].pos < Len(FileLines(replays[k].file))

ReplayEndEnabled ==
    \E k \in 1..Len(replays) :
        /\ DrainsBounded
        /\ replays[k].pc = "reading"
        /\ replays[k].file \in DOMAIN disk
        /\ replays[k].pos = Len(FileLines(replays[k].file))

\* What the event loop guarantees: an append that was issued settles, and it
\* succeeds once the failures are over; a stream that was opened delivers its
\* lines and its end, or its error.  The weak fairness of ReplayLine and of
\* ReplayEnd is written out with their guards.
Fairness ==
    /\ WF_vars(\E i \in 1..Len(pending) : addToFileDone(i))
    /\ WF_vars(\E k \in 1..Len(replays) : ReplayOpenFailed(k))
    /\ \/ []<>(~ReplayLineEnabled)
       \/ []<><<\E k \in 1..Len(replays) : ReplayLine(k)>>_vars
    /\ \/ []<>(~ReplayEndEnabled)
       \/ []<><<\E k \in 1..Len(replays) : ReplayEnd(k)>>_vars

SpecLive == InitLive /\ [][Next]_vars /\ Fairness

\* ------------------------------------------------------ subtitle times
\* The millisecond counts formatted: every combination of these hours,
\* minutes, seconds and milliseconds.
SrtHours == {0, 1, 10, 99, 100}
SrtMinutes == {0, 1, 59}
SrtSeconds == {0, 1, 59}
SrtMillis == {0, 1, 50, 500, 999}

SrtTimes ==
    {h * 3600000 + m * 60000 + s * 1000 + f :
        h \in SrtHours, m \in SrtMinutes, s \in SrtSeconds, f \in SrtMillis}

InitSrtTime ==
    /\ budget = [sessions |-> 0, events |-> 0, ticks |-> 0, failures |-> 0,
                 drains |-> MaxDrains]
    /\ recording = [isRecording |-> FALSE, startDateTime |-> NoDate,
                    endDateTime |-> NoDate, sequence |-> 0]
    /\ fileQueue = <<>>
    /\ pending = <<>>
    /\ disk = <<>>
    /\ replays = <<>>
    /\ now = 0
    /\ exportPath \in ExportPaths
    /\ exportFormats = {}
    /\ workspaceFolders = TRUE
    /\ activeEditor = "f1"
    /\ docs = [f \in Files |-> <<>>]
    /\ enqueued = <<>>
    /\ sessions = 0
    /\ events = 0
    /\ failures = 0
    /\ \E ms \in SrtTimes : codec = [pc |-> "ms", ms |-> ms]

\* formatSrtTime(ms).
SrtFormat ==
    /\ codec.pc = "ms"
    /\ codec' = [pc |-> "formatted", ms |-> codec.ms, out |-> formatSrtTime(codec.ms)]
    /\ UNCHANGED <<budget, recording, fileQueue, pending, disk, replays, now, exportPath,
                   exportFormats, workspaceFolders, activeEditor, docs, enqueued, sessions,
                   events, failures>>

NextSrtTime == SrtFormat

SpecSrtTime == InitSrtTime /\ [][NextSrtTime]_vars

\* ================================================================ claims
\* The items enqueued for a row log: the heading line and the rows.
IsRowLogItem(i) ==
    enqueued[i].about.type \in {ChangeTypeHEADING, ChangeTypeTAB, ChangeTypeCONTENT}

RowLogItems == {i \in 1..Len(enqueued) : IsRowLogItem(i)}

\* The places on disk that hold the item enqueued as the i-th.
PlacesOf(i) ==
    {p \in UNION {{<<f, k>> : k \in 1..Len(disk[f])} : f \in DOMAIN disk} :
        disk[p[1]][p[2]].id = i}

TimesWritten(i) == Cardinality(PlacesOf(i))

InQueue(i) == \E k \in 1..Len(fileQueue) : fileQueue[k].id = i

InFlight(i) == \E k \in 1..Len(pending) : pending[k].id = i

\* C1: every item enqueued for a row log is appended to its file exactly
\* once: it is never on disk twice, and once it is neither in the queue nor
\* carried by a write in flight it is on disk.
C1_ExactlyOnce ==
    \A i \in RowLogItems :
        /\ TimesWritten(i) <= 1
        /\ (~InQueue(i) /\ ~InFlight(i)) => TimesWritten(i) = 1

\* C2: within every file the contents lie in the order in which they were
\* enqueued: no content lies before one that was enqueued earlier.
C2_WriteOrder ==
    \A f \in DOMAIN disk : \A k, l \in 1..Len(disk[f]) :
        k < l => disk[f][k].id <= disk[f][l].id

\* The items of the row log of a replay's session, in enqueue order.
LogIds(r) == SortedSeq({i \in RowLogItems : enqueued[i].about.session = r.session})

\* The log of the replay's session is on disk as its items were enqueued:
\* each once, in order, and nothing else.
WrittenInOrder(r) ==
    /\ r.file \in DOMAIN disk
    /\ [k \in 1..Len(disk[r.file]) |-> disk[r.file][k].id] = LogIds(r)

\* The session's rows are the start-of-session TAB row and CONTENT rows.
TabThenContent(r) ==
    LET ids == LogIds(r)
    IN  /\ Len(ids) >= 2
        /\ enqueued[ids[1]].about.type = ChangeTypeHEADING
        /\ enqueued[ids[2]].about.type = ChangeTypeTAB
        /\ \A k \in 3..Len(ids) : enqueued[ids[k]].about.type = ChangeTypeCONTENT

\* The fields of the line the item enqueued as the i-th makes in its file.
RowFields(i) ==
    SplitCsvLine(SubSeq(enqueued[i].content.text, 1, Len(enqueued[i].content.text) - 1))

\* C3: in a replay of a session of a TAB row and CONTENT rows, whose log is on
\* disk as enqueued, each CONTENT row is a splice within the text
\* reconstructed before it, and the text reconstructed after each row is the
\* text the document held after the edit the row was captured from.
C3_Lossless ==
    \A k \in 1..Len(replays) :
        LET r == replays[k]
        IN  (WrittenInOrder(r) /\ TabThenContent(r)) =>
                \A j \in 1..Len(r.texts) :
                    /\ r.texts[j] = enqueued[r.ids[j]].about.doc
                    /\ enqueued[r.ids[j]].about.type = ChangeTypeCONTENT =>
                          /\ j > 1
                          /\ ParseInt(Field(RowFields(r.ids[j]), 3))
                                + ParseInt(Field(RowFields(r.ids[j]), 4))
                                <= Len(r.texts[j - 1])

\* The sequenced rows (TAB and CONTENT) enqueued in session s, in order.
SequencedRows(s) ==
    SortedSeq({i \in RowLogItems : /\ enqueued[i].about.session = s
                                   /\ enqueued[i].about.type # ChangeTypeHEADING})

\* C4: in every session the k-th row enqueued for the row log carries the
\* sequence number k; the heading line carries none.
C4_RowSequence ==
    \A s \in 1..sessions :
        /\ \A k \in 1..Len(SequencedRows(s)) :
              ParseInt(Field(RowFields(SequencedRows(s)[k]), 0)) = k
        /\ \A i \in RowLogItems :
              enqueued[i].about.type = ChangeTypeHEADING =>
                  ParseInt(Field(RowFields(i), 0)) = NaN

\* A session with the start row, a CONTENT row of an edit and a TAB row of an
\* editor switch.
C4_Witness ==
    \E s \in 1..sessions :
        LET ids == SequencedRows(s)
        IN  /\ Len(ids) = 3
            /\ enqueued[ids[2]].about.type = ChangeTypeCONTENT
            /\ enqueued[ids[3]].about.type = ChangeTypeTAB

\* C5: a text put in a row by buildCsvRow comes back from the row: the split
\* yields 8 fields, and unescapeString(removeDoubleQuotes(...)) of the sixth
\* is the text.
C5_RoundTrip ==
    /\ codec.pc \in {"fields", "decoded"} => Len(codec.lineArr) = 8
    /\ codec.pc = "decoded" => codec.decoded = codec.text

\* What the row of the j-th valid line of a replay holds.
StepFields(r, j) == RowFields(r.steps[j].id)
StepTime(r, j) == ParseInt(Field(StepFields(r, j), 1))
StepFile(r, j) == removeDoubleQuotes(Field(StepFields(r, j), 2))
StepOffset(r, j) == ParseInt(Field(StepFields(r, j), 3))
StepLength(r, j) == ParseInt(Field(StepFields(r, j), 4))
StepText(r, j) == unescapeString(removeDoubleQuotes(Field(StepFields(r, j), 5)))
StepLanguage(r, j) == Field(StepFields(r, j), 6)
StepType(r, j) == Field(StepFields(r, j), 7)

SpliceInRange(r, j) ==
    /\ r.steps[j].previous # <<>>
    /\ 0 <= StepOffset(r, j)
    /\ 0 <= StepLength(r, j)
    /\ StepOffset(r, j) + StepLength(r, j) <= Len(r.steps[j].previous[1].text)

\* C6: the text replay reconstructs for a TAB row is the row's text, whatever
\* the previous Change and the row's range; for a CONTENT row with a previous
\* Change and a range within its text it is that text with the range
\* replaced by the row's text.  A Change the row yields carries that text.
C6_ReplayStep ==
    \A k \in 1..Len(replays) : \A j \in 1..Len(replays[k].steps) :
        LET r == replays[k]
            previousText == r.steps[j].previous[1].text
        IN  /\ StepType(r, j) = <<ChangeTypeTAB>> => r.texts[j] = StepText(r, j)
            /\ (StepType(r, j) = <<ChangeTypeCONTENT>> /\ SpliceInRange(r, j)) =>
                  r.texts[j] =
                      SubSeq(previousText, 1, StepOffset(r, j)) \o StepText(r, j)
                        \o SubSeq(previousText, StepOffset(r, j) + StepLength(r, j) + 1,
                                  Len(previousText))
            /\ r.steps[j].change # <<>> => r.steps[j].change[1].text = r.texts[j]

\* A replay that has read a TAB row with a range after a Change, and a CONTENT
\* row that replaces characters of the previous text.
C6_Witness ==
    \E k \in 1..Len(replays) : \E i, j \in 1..Len(replays[k].steps) :
        LET r == replays[k]
        IN  /\ StepType(r, i) = <<ChangeTypeTAB>>
            /\ r.steps[i].previous # <<>>
            /\ StepLength(r, i) > 0
            /\ StepType(r, j) = <<ChangeTypeCONTENT>>
            /\ SpliceInRange(r, j)
            /\ StepLength(r, j) > 0
            /\ StepText(r, j) # <<>>

\* The row of the j-th valid line agrees with the previous Change on time,
\* file, reconstructed text and language.
SameAsPrevious(r, j) ==
    /\ r.steps[j].previous # <<>>
    /\ StepTime(r, j) = r.steps[j].previous[1].startTime
    /\ StepFile(r, j) = r.steps[j].previous[1].file
    /\ r.texts[j] = r.steps[j].previous[1].text
    /\ StepLanguage(r, j) = r.steps[j].previous[1].language

Agree(c, d) ==
    /\ c.startTime = d.startTime
    /\ c.file = d.file
    /\ c.text = d.text
    /\ c.language = d.language

\* C7: a valid row yields no Change exactly when it agrees with the previous
\* Change on time, file, text and language; then the Changes are left as
\* they were and no subtitle block is enqueued; and no two consecutive
\* Changes agree on all four.
C7_Deduplication ==
    \A k \in 1..Len(replays) :
        LET r == replays[k]
        IN  /\ \A j \in 1..Len(r.steps) :
                  /\ r.steps[j].change = <<>> <=> SameAsPrevious(r, j)
                  /\ r.steps[j].change = <<>> =>
                        /\ r.steps[j].after = r.steps[j].before
                        /\ r.steps[j].blocks = 0
            /\ \A j \in 1..(Len(r.processedChanges) - 1) :
                  ~Agree(r.processedChanges[j], r.processedChanges[j + 1])

\* A replay that has dropped a row, and has kept a row that differs from the
\* previous Change in its time alone.
C7_Witness ==
    \E k \in 1..Len(replays) : \E i, j \in 1..Len(replays[k].steps) :
        LET r == replays[k]
        IN  /\ "SRT" \in r.exportFormats
            /\ r.steps[i].change = <<>>
            /\ r.steps[j].change # <<>>
            /\ r.steps[j].previous # <<>>
            /\ StepTime(r, j) # r.steps[j].previous[1].startTime
            /\ StepFile(r, j) = r.steps[j].previous[1].file
            /\ r.texts[j] = r.steps[j].previous[1].text
            /\ StepLanguage(r, j) = r.steps[j].previous[1].language

\* C8: in a finished replay every Change but the last ends when the next one
\* starts, and the last one ends at the session's end time minus its start
\* time.
C8_IntervalClosure ==
    \A k \in 1..Len(replays) :
        LET r == replays[k]
            n == Len(r.processedChanges)
        IN  r.pc = "done" =>
                /\ \A j \in 1..(n - 1) :
                      r.processedChanges[j].endTime = r.processedChanges[j + 1].startTime
                /\ n > 0 => r.processedChanges[n].endTime = r.end - r.start

\* C9: the Changes of a replay are numbered 1, 2, ..., K in output order.
C9_OutputSequence ==
    \A k \in 1..Len(replays) : \A j \in 1..Len(replays[k].processedChanges) :
        replays[k].processedChanges[j].sequence = j

\* A finished replay of two Changes or more that skipped a line that is no
\* row, and whose log stores another number for a Change than it got.
C9_Witness ==
    \E k \in 1..Len(replays) :
        LET r == replays[k]
        IN  /\ r.pc = "done"
            /\ Len(r.processedChanges) >= 2
            /\ r.pos > Len(r.steps)
            /\ \E j \in 1..Len(r.steps) :
                  /\ r.steps[j].change # <<>>
                  /\ ParseInt(Field(StepFields(r, j), 0)) # r.steps[j].change[1].sequence

\* The Changes an enqueued structured export holds.
ExportedChanges ==
    UNION {{enqueued[i].content.changes[j] : j \in 1..Len(enqueued[i].content.changes)} :
             i \in {x \in 1..Len(enqueued) : enqueued[x].content.kind = "json"}}

\* C10: every Change of a finished replay, and of a structured export, starts
\* no later than it ends.
C10_StartBeforeEnd ==
    /\ \A k \in 1..Len(replays) :
          replays[k].pc = "done" =>
              \A j \in 1..Len(replays[k].processedChanges) :
                  replays[k].processedChanges[j].startTime
                      <= replays[k].processedChanges[j].endTime
    /\ \A c \in ExportedChanges : c.startTime <= c.endTime

\* A line whose first field does not parse as an integer.
IsMalformed(line) == ParseInt(SplitCsvLine(line)[1]) = NaN

\* The lines a replay has read so far.
LinesRead(r) == SubSeq(FileLines(r.file), 1, r.pos)

\* The Changes the loop of processCsvFile makes of lines, from changes on.
RECURSIVE ChangesOfLines(_, _)
ChangesOfLines(lines, changes) ==
    IF lines = <<>> THEN changes
    ELSE LET previousChange == Last(changes)
             change == processCSVLine(Head(lines), previousChange)
             closed == IF previousChange # <<>> /\ change # <<>>
                       THEN [changes EXCEPT ![Len(changes)].endTime = change[1].startTime]
                       ELSE changes
         IN  ChangesOfLines(Tail(lines),
                            IF change = <<>> THEN changes ELSE Append(closed, change[1]))

\* A replay reads a malformed line in this step.
ReadsMalformed(k) ==
    /\ k \in 1..Len(replays)
    /\ replays[k].pc = "reading"
    /\ replays[k].file \in DOMAIN disk
    /\ replays[k].pos < Len(FileLines(replays[k].file))
    /\ IsMalformed(FileLines(replays[k].file)[replays[k].pos + 1])
    /\ replays' # replays
    /\ \A i \in 1..Len(replays) : i # k => replays'[i] = replays[i]

\* C11: reading a line whose first field is no integer yields no Change,
\* leaves the Changes made so far and the queue as they are and the replay
\* reading; and the Changes of a replay are at every moment those of the
\* lines read so far with the malformed ones left out.
C11_MalformedSkipped ==
    /\ [][\A k \in 1..Len(replays) :
            ReadsMalformed(k) =>
                /\ replays'[k].processedChanges = replays[k].processedChanges
                /\ replays'[k].pc = "reading"
                /\ replays'[k].pos = replays[k].pos + 1
                /\ fileQueue' = fileQueue
                /\ enqueued' = enqueued]_vars
    /\ [](\A k \in 1..Len(replays) :
            replays[k].pc \in {"reading", "failed"} =>
                replays[k].processedChanges =
                    ChangesOfLines(SelectSeq(LinesRead(replays[k]),
                                             LAMBDA l : ~IsMalformed(l)), <<>>))

\* A finished replay of three lines, the second of them malformed and not
\* the heading, the first and the third each the row of a Change.
C11_Witness ==
    \E k \in 1..Len(replays) :
        LET r == replays[k]
            lines == FileLines(r.file)
        IN  /\ r.pc = "done"
            /\ r.pos = 3
            /\ IsMalformed(lines[2])
            /\ lines[2] # SubSeq(HeadingLine, 1, Len(HeadingLine) - 1)
            /\ ~IsMalformed(lines[1])
            /\ ~IsMalformed(lines[3])
            /\ Len(r.processedChanges) = 2

\* A step is a call of startRecording, of stopRecording.
StartCalled == \E clock \in ClockReadings : startRecording(clock)
StopCalled == \E clock \in ClockReadings : stopRecording(clock)

\* C12: startRecording called while a session is active, with no active
\* editor or with no export path, and stopRecording called while no session
\* is active, leave recording (isRecording, startDateTime, endDateTime,
\* sequence), the queue and the writes in flight as they are, and start no
\* replay.
C12_RejectedNoOp ==
    [][/\ (StartCalled /\ (recording.isRecording \/ activeEditor = NoEditor
                            \/ exportPath = NoPath))
            => UNCHANGED <<recording, fileQueue, pending, enqueued, replays>>
       /\ (StopCalled /\ ~recording.isRecording)
            => UNCHANGED <<recording, fileQueue, pending, enqueued, replays>>]_vars

\* A session is active, has logged a second row, and startRecording can be
\* called once more.
C12_Witness ==
    /\ recording.isRecording
    /\ recording.sequence >= 2
    /\ sessions < budget.sessions
    /\ DrainsBounded

\* The active session ends in this step.
SessionEnds == recording.isRecording /\ ~recording'.isRecording

\* The items a step enqueues.
NewItems == {i \in 1..Len(enqueued') : i > Len(enqueued)}

C14_Teardown ==
    (~recording.isRecording /\ \A k \in 1..Len(replays) : replays[k].pc # "reading") =>
        /\ recording.sequence = 0
        /\ recording.startDateTime = NoDate
        /\ recording.endDateTime = NoDate

\* The step calls appendToFile: a handler that logs a row, or the end of a
\* replay.
FlushCalled ==
    \/ \E k \in 1..Len(replays) : ReplayEnd(k)
    \/ \E i \in NewItems : enqueued'[i].about.type \notin {"srt", "json"}

\* C15: a step that calls appendToFile while a session is active and there
\* is no export path ends the session by force: isRecording is cleared,
\* endDateTime stays unset, no replay starts and no export of the session is
\* enqueued; the call issues no write and nothing reaches the disk.
C15_PathLost ==
    [][(FlushCalled /\ recording.isRecording /\ exportPath = NoPath) =>
            /\ ~recording'.isRecording
            /\ recording'.endDateTime = NoDate
            /\ Len(replays') = Len(replays)
            /\ \A i \in NewItems :
                  enqueued'[i].about.type \in {"srt", "json"} =>
                      enqueued'[i].about.session # sessions
            /\ pending' = pending
            /\ disk' = disk]_vars

\* The session was ended by a flush that found no export path: the row the
\* handler pushed is still in the queue and no write is in flight.
C15_Witness ==
    /\ ~recording.isRecording
    /\ recording.startDateTime # NoDate
    /\ recording.endDateTime = NoDate
    /\ exportPath = NoPath
    /\ fileQueue # <<>>
    /\ pending = <<>>
    /\ fileQueue[Len(fileQueue)].id = Len(enqueued)
    /\ enqueued[Len(enqueued)].about.type \notin {"srt", "json"}

\* Every item that was enqueued is on disk and the queue is empty.
AllWritten == fileQueue = <<>> /\ \A i \in 1..Len(enqueued) : TimesWritten(i) >= 1

\* C16: if the export path is there at all times, then, the appends
\* succeeding once the failures are over, from some time on every item that
\* was enqueued is on disk and the queue is empty: a failed append loses no
\* item.
C16_WriterLiveness == ([](exportPath # NoPath)) => <>[]AllWritten

\* A call of appendToFile returns in this step: a drain finds the queue empty
\* when it resumes, or the call made in this step awaits no write.
DrainReturns == Len(pending') < Len(pending)
FlushReturnsAtOnce == FlushCalled /\ pending' = pending

\* C17 as stated: whenever a call of appendToFile returns, fileQueue is
\* empty.
C17_FlushDrains ==
    [][(DrainReturns \/ FlushReturnsAtOnce) => fileQueue' = <<>>]_vars

\* C17: whenever a call of appendToFile that found the export path returns,
\* fileQueue is empty; a call that finds no export path returns at once and
\* leaves the queue as it is.
C17_FlushDrainsWithPath ==
    [][/\ (DrainReturns \/ (FlushReturnsAtOnce /\ exportPath # NoPath))
            => fileQueue' = <<>>
       /\ (FlushReturnsAtOnce /\ exportPath = NoPath)
            => \A k \in 1..Len(fileQueue) : fileQueue'[k] = fileQueue[k]]_vars

\* The drains have returned after a whole session's rows were written.
C17_Witness ==
    /\ fileQueue = <<>>
    /\ pending = <<>>
    /\ exportPath # NoPath
    /\ Len(enqueued) >= 3
    /\ \A i \in 1..Len(enqueued) : TimesWritten(i) >= 1

\* C18: a call of appendToFile that finds fileQueue empty issues no write,
\* writes nothing and leaves recording (isRecording, startDateTime,
\* endDateTime, sequence) as it was, with or without an export path.
C18_IdempotentFlush ==
    [][(FlushCalled /\ fileQueue' = <<>>) =>
            /\ pending' = pending
            /\ disk' = disk
            /\ recording' = recording]_vars

\* The subtitle blocks enqueued for the replay of session s, in the order in
\* which they were enqueued.
RECURSIVE ContentsOf(_)
ContentsOf(items) ==
    IF items = <<>> THEN <<>> ELSE <<Head(items).content>> \o ContentsOf(Tail(items))

SrtBlocks(s) ==
    ContentsOf(SelectSeq(enqueued,
                         LAMBDA e : e.content.kind = "srt" /\ e.about.session = s))

\* The block of a Change as it stands.
BlockOf(c) ==
    addSrtLine(c.sequence, c.startTime, c.endTime,
               [text |-> c.text, file |-> c.file, language |-> c.language])

BlocksOf(changes) == [i \in 1..Len(changes) |-> BlockOf(changes[i])]

AllButLast(seq) == SubSeq(seq, 1, Len(seq) - 1)

\* C19: a replay that exports SRT has enqueued, while it reads, the blocks of
\* the Changes it has closed (all but the last), and, once it is done, the
\* blocks of all its Changes, one each, in the order of the Changes, each
\* with the Change's final endTime; a replay that does not export SRT has
\* enqueued no block, and no block is enqueued without a replay.
C19_SubtitleBlocks ==
    /\ \A k \in 1..Len(replays) :
          LET r == replays[k]
          IN  IF "SRT" \in r.exportFormats
              THEN /\ r.pc = "reading" =>
                          SrtBlocks(r.session) = BlocksOf(AllButLast(r.processedChanges))
                   /\ r.pc = "done" =>
                          SrtBlocks(r.session) = BlocksOf(r.processedChanges)
              ELSE SrtBlocks(r.session) = <<>>
    /\ \A i \in 1..Len(enqueued) :
          enqueued[i].content.kind = "srt" =>
              \E k \in 1..Len(replays) : replays[k].session = enqueued[i].about.session

\* The structured exports enqueued for the replay of session s.
JsonWrites(s) ==
    ContentsOf(SelectSeq(enqueued,
                         LAMBDA e : e.content.kind = "json" /\ e.about.session = s))

\* C20: a replay that exports JSON has enqueued no structured export while it
\* reads or when it has failed and exactly one once it is done, which holds
\* the Changes of its output, all of them, in order and as they are at the
\* end of the replay, and which was enqueued after every subtitle block of
\* the replay; a replay that does not export JSON has enqueued none, and
\* none is enqueued without a replay.
C20_StructuredExport ==
    /\ \A k \in 1..Len(replays) :
          LET r == replays[k]
          IN  IF "JSON" \in r.exportFormats /\ r.pc = "done"
              THEN JsonWrites(r.session) =
                       <<[kind |-> "json", changes |-> r.processedChanges]>>
              ELSE JsonWrites(r.session) = <<>>
    /\ \A i, j \in 1..Len(enqueued) :
          (/\ enqueued[i].content.kind = "json"
           /\ enqueued[j].content.kind = "srt"
           /\ enqueued[i].about.session = enqueued[j].about.session) => j < i
    /\ \A i \in 1..Len(enqueued) :
          enqueued[i].content.kind = "json" =>
              \E k \in 1..Len(replays) : replays[k].session = enqueued[i].about.session

\* A replay that exported JSON and SRT is done with two Changes or more, the
\* last of which was closed at a time after the start of its session.
C20_Witness ==
    \E k \in 1..Len(replays) :
        /\ replays[k].pc = "done"
        /\ replays[k].exportFormats = {"SRT", "JSON"}
        /\ Len(replays[k].processedChanges) >= 2
        /\ Last(replays[k].processedChanges)[1].endTime >= 1
        /\ Len(JsonWrites(replays[k].session)) = 1

\* C21: a stopRecording step that ends a session while no export format is
\* selected (a workspace folder and the export path being there) starts the
\* replay of the session's log, enqueues no export, and what it reports is
\* not an error.
C21_NoFormats ==
    [][(/\ StopCalled /\ recording.isRecording /\ exportFormats = {}
        /\ workspaceFolders /\ exportPath # NoPath) =>
            /\ Len(replays') = Len(replays) + 1
            /\ replays'[Len(replays')].pc = "reading"
            /\ NewItems = {}
            /\ processCsvFileReport(recording') # "error"]_vars

\* The replay k fails to open its log in this step.
OpenFails(k) ==
    /\ replays[k].pc = "reading"
    /\ replays[k].pos = 0
    /\ replays[k].file \notin DOMAIN disk
    /\ replays'[k].pc = "failed"

\* C22: a stopRecording step that ends a session while there is no workspace
\* folder, or no export path, starts no replay, enqueues nothing and reports
\* an error; a replay whose log cannot be opened stops, reports an error and
\* enqueues nothing; and no subtitle block or structured export is ever
\* enqueued for a session whose replay did not start or could not open its
\* log.
C22_Prerequisites ==
    /\ [][/\ (/\ StopCalled /\ recording.isRecording /\ exportFormats # {}
              /\ (~workspaceFolders \/ exportPath = NoPath)) =>
                /\ replays' = replays
                /\ NewItems = {}
                /\ processCsvFileReport(recording') = "error"
          /\ \A k \in 1..Len(replays) : (Len(replays') = Len(replays) /\ OpenFails(k)) =>
                /\ NewItems = {}
                /\ ReplayReport(replays'[k]) = "error"]_vars
    /\ [](\A k \in 1..Len(replays) :
             (replays[k].pc = "failed" /\ replays[k].processedChanges = <<>>) =>
                 SrtBlocks(replays[k].session) = <<>> /\ JsonWrites(replays[k].session) = <<>>)

\* The decimal digits of n, with zeros in front up to two and three digits.
TwoDigits(n) == IF n < 10 THEN <<"0">> \o NumToStr(n) ELSE NumToStr(n)
ThreeDigits(n) ==
    IF n < 10 THEN <<"0", "0">> \o NumToStr(n)
    ELSE IF n < 100 THEN <<"0">> \o NumToStr(n)
    ELSE NumToStr(n)

\* C23: formatSrtTime(ms) is HH:MM:SS,mmm with HH = ms div 3600000,
\* MM = (ms div 60000) mod 60, SS = (ms div 1000) mod 60 and mmm = ms mod
\* 1000, with zeros in front up to 2, 2, 2 and 3 digits; 3661500 gives
\* 01:01:01,500.
C23_SrtTime ==
    codec.pc = "formatted" =>
        /\ codec.out = TwoDigits(codec.ms \div 3600000) \o <<":">>
                         \o TwoDigits((codec.ms \div 60000) % 60) \o <<":">>
                         \o TwoDigits((codec.ms \div 1000) % 60) \o <<COMMA>>
                         \o ThreeDigits(codec.ms % 1000)
        /\ codec.ms = 3661500 =>
              codec.out = <<"0", "1", ":", "0", "1", ":", "0", "1", COMMA, "5", "0", "0">>

\* 3661500 was formatted.
C23_Witness == codec.pc = "formatted" /\ codec.ms = 3661500

\* C24: at most one append is outstanding at any time.
C24_OneWriteInFlight == Len(pending) <= 1

\* C25: every step that removes an item from fileQueue removes one that is on
\* disk once the step is taken.
C25_RemovedAfterWrite ==
    [][Len(fileQueue') < Len(fileQueue) =>
            \E f \in DOMAIN disk' : \E k \in 1..Len(disk'[f]) :
                disk'[f][k].id = fileQueue[1].id]_vars

\* The ids of the items a step puts on disk.
IdsOn(d) == UNION {{d[f][k].id : k \in 1..Len(d[f])} : f \in DOMAIN d}

NewOnDisk == IdsOn(disk') \ IdsOn(disk)

C27_OneReplay ==
    Cardinality({k \in 1..Len(replays) : replays[k].pc = "reading"}) <= 1

\* C28: a CONTENT row read while there is no previous Change yields no
\* Change.
C28_ContentWithoutBaseline ==
    \A k \in 1..Len(replays) : \A j \in 1..Len(replays[k].steps) :
        (/\ replays[k].steps[j].previous = <<>>
         /\ StepType(replays[k], j) = <<ChangeTypeCONTENT>>) =>
            replays[k].steps[j].change = <<>>

\* The j-th valid line is a CONTENT row whose range is not within the text
\* of the previous Change.
SpliceOutOfRange(r, j) ==
    /\ StepType(r, j) = <<ChangeTypeCONTENT>>
    /\ r.steps[j].previous # <<>>
    /\ 0 <= StepOffset(r, j)
    /\ 0 <= StepLength(r, j)
    /\ StepOffset(r, j) + StepLength(r, j) > Len(r.steps[j].previous[1].text)

\* C29: for a CONTENT row whose range is not within the previous text, the
\* text reconstructed is the previous text with the characters from
\* min(rangeOffset, length) up to min(rangeOffset + rangeLength, length)
\* replaced by the row's text, and the row yields a Change with that text
\* unless it agrees with the previous Change; the replay does not stop there:
\* a replay stops only at a line with a sequence number and fewer than six
\* fields.
C29_ClampedSplice ==
    \A k \in 1..Len(replays) :
        LET r == replays[k]
        IN  /\ \A j \in 1..Len(r.steps) :
                  SpliceOutOfRange(r, j) =>
                      LET previousText == r.steps[j].previous[1].text
                          lo == Min(StepOffset(r, j), Len(previousText))
                          hi == Min(StepOffset(r, j) + StepLength(r, j), Len(previousText))
                      IN  /\ r.texts[j] = SubSeq(previousText, 1, lo) \o StepText(r, j)
                                            \o SubSeq(previousText, hi + 1, Len(previousText))
                          /\ r.steps[j].change = <<>> => SameAsPrevious(r, j)
                          /\ r.steps[j].change # <<>> =>
                                /\ r.steps[j].change[1].text = r.texts[j]
                                /\ Len(r.steps[j].after) = Len(r.steps[j].before) + 1
                                /\ Last(r.steps[j].after) = r.steps[j].change
            /\ r.pc = "failed" => LineThrows(FileLines(r.file)[r.pos + 1])

\* A finished replay that read a CONTENT row with an offset past the end of
\* the previous text and a CONTENT row whose range starts within a non-empty
\* previous text and ends past it: each yielded a Change, the later one after
\* the earlier one.
C29_Witness ==
    \E k \in 1..Len(replays) : \E i, j \in 1..Len(replays[k].steps) :
        LET r == replays[k]
        IN  /\ r.pc = "done"
            /\ i # j
            /\ SpliceOutOfRange(r, i)
            /\ StepOffset(r, i) > Len(r.steps[i].previous[1].text)
            /\ SpliceOutOfRange(r, j)
            /\ StepOffset(r, j) < Len(r.steps[j].previous[1].text)
            /\ r.steps[i].change # <<>>
            /\ r.steps[j].change # <<>>

\* The files on disk that are row logs, and the places of a row log that
\* hold a row with a sequence number.
RowLogFiles == {f \in DOMAIN disk : disk[f][1].content.kind = "text"}

SequencedPlaces(f) ==
    {k \in 1..Len(disk[f]) : ParseInt(Field(RowFields(disk[f][k].id), 0)) # NaN}

\* The first two items an accepted startRecording enqueues: the heading line
\* and the TAB row of the active document, with sequence 1.
StartEnqueues ==
    LET n == Len(enqueued)
    IN  /\ Len(enqueued') = n + 2
        /\ SubSeq(enqueued', 1, n) = enqueued
        /\ enqueued'[n + 1].content = Str(HeadingLine)
        /\ enqueued'[n + 2].content =
              Str(FormatRow(1, 0, getEditorFileName(activeEditor), 0, 0,
                            docs[activeEditor], getEditorLanguage(activeEditor),
                            ChangeTypeTAB))
        /\ enqueued'[n + 1].name = generateFileName(now', FALSE) \o <<".", "csv">>
        /\ enqueued'[n + 2].name = enqueued'[n + 1].name
        /\ Len(fileQueue') = Len(fileQueue) + 2
        /\ fileQueue'[Len(fileQueue') - 1].id = n + 1
        /\ fileQueue'[Len(fileQueue')].id = n + 2

\* C30: an accepted startRecording enqueues, first, the heading line and then
\* a TAB row with sequence 1 that carries the text of the active document;
\* and the first line of every row log on disk is the heading line and its
\* first row with a sequence number is a TAB row.
C30_LogStart ==
    /\ [][(StartCalled /\ sessions' = sessions + 1) => StartEnqueues]_vars
    /\ [](\A f \in RowLogFiles :
             /\ disk[f][1].content = Str(HeadingLine)
             /\ \A k \in SequencedPlaces(f) :
                   (\A l \in SequencedPlaces(f) : k <= l) =>
                       Field(RowFields(disk[f][k].id), 7) = <<ChangeTypeTAB>>)

\* The TAB rows enqueued before the i-th item for the same session.
TabRowsBefore(i) ==
    {j \in 1..(i - 1) : /\ enqueued[j].about.session = enqueued[i].about.session
                        /\ enqueued[j].about.type = ChangeTypeTAB}

\* C31: every CONTENT row enqueued for a session's row log names the file
\* that the last TAB row enqueued before it for that session names.
C31_ContentAfterBaseline ==
    \A i \in 1..Len(enqueued) :
        enqueued[i].about.type = ChangeTypeCONTENT =>
            /\ TabRowsBefore(i) # {}
            /\ \A j \in TabRowsBefore(i) :
                  (\A l \in TabRowsBefore(i) : l <= j) =>
                      Field(RowFields(i), 2) = Field(RowFields(j), 2)

\* C32: while a replay reads a session's row log, every item that session
\* enqueued for the log is on disk: none of them is still in the queue or
\* carried by a write in flight.
C32_ReplayAfterWrites ==
    \A k \in 1..Len(replays) :
        replays[k].pc = "reading" =>
            \A i \in RowLogItems :
                enqueued[i].about.session = replays[k].session =>
                    /\ ~InQueue(i)
                    /\ ~InFlight(i)
                    /\ TimesWritten(i) >= 1

\* The start times recorded for session s: the one its replays were started
\* with and, while s is the latest session, the one startRecording set.
StartTimesOf(s) ==
    {replays[k].start : k \in {x \in 1..Len(replays) : replays[x].session = s}}
        \cup (IF s = sessions /\ s > 0 THEN {recording.startDateTime} ELSE {})

\* The file names derived from start time t.
NamesOf(t) ==
    {generateFileName(t, FALSE) \o <<".", ext>> : ext \in {"csv", "srt", "json"}}

\* The sessions whose items file f holds.
SessionsIn(f) == {enqueued[disk[f][k].id].about.session : k \in 1..Len(disk[f])}

\* C33: every item enqueued for a session is named after that session's own
\* start time, a finished replay closes its last Change at its session's own
\* end time, and no file holds items of two sessions.
C33_SessionOwnsFiles ==
    /\ \A i \in 1..Len(enqueued) :
          \A t \in StartTimesOf(enqueued[i].about.session) :
              enqueued[i].name \in NamesOf(t)
    /\ \A k \in 1..Len(replays) :
          LET r == replays[k]
              n == Len(r.processedChanges)
          IN  (r.pc = "done" /\ n > 0) =>
                  r.processedChanges[n].endTime = r.end - r.start
    /\ \A f \in DOMAIN disk : Cardinality(SessionsIn(f)) <= 1

=============================================================================
